---------------------------- MODULE Spec2Model ----------------------------
(***************************************************************************)
(* const-regex: match_regex!(pattern, bytes) compiles a regex literal to a *)
(* DFA with the regex-automata backend (build_dfa), copies the part of the *)
(* automaton the matcher needs into a state graph (Dfa::from_regex,        *)
(* Dfa::add_states, State::from_regex), and emits a matcher: a loop over   *)
(* the input bytes that dispatches on a `state` variable (Dfa::handle,     *)
(* State::handle, range_to_tokens).                                        *)
(*                                                                         *)
(* The model follows one macro expansion from build_dfa to the emitted     *)
(* block and then one call of the emitted `const fn match_regex(input)`.   *)
(***************************************************************************)
EXTENDS Integers, Sequences, FiniteSets, TLC

(***************************************************************************)
(* Bounds of the model.                                                    *)
(***************************************************************************)
\* longest pattern literal handed to the macro
MaxPatLen == 2
\* number of state ids of an automaton drawn as an arbitrary backend result
NumStates == 3
\* longest input handed to the emitted matcher
MaxLen == 2
\* the byte sets coalesced on their own are drawn from 'a', 'b' and the
\* bytes at most this far from either end of 0..255
Edge == 2

(***************************************************************************)
(* State.                                                                  *)
(***************************************************************************)
VARIABLES
    pc,         \* where the expansion, then the emitted matcher, stands
    pattern,    \* args.regex
    builder,    \* what build_dfa handed to dense::Builder
    regex,      \* the RegexDfa build_dfa returned
    dfa,        \* the Dfa under construction: start and states
    stack,      \* the add_states calls in progress, innermost last
    calls,      \* add_states calls so far, per state id
    overwrote,  \* some insert replaced an entry
    block,      \* the emitted matcher
    input,      \* the matcher's argument
    i,          \* the matcher's index
    state,      \* the matcher's state
    result,     \* the matcher's return value
    via,        \* which `return` produced it
    btree,      \* the BTreeSet<u8> of the byte arm State::handle is rendering
    iter,       \* the bytes `for &byte in bytes` has yet to yield
    coal,       \* the loop's variables: the open range and the ranges pushed
    underflow   \* some `byte - 1` was evaluated with byte = 0

coalVars == <<btree, iter, coal, underflow>>

vars == <<pc, pattern, builder, regex, dfa, stack, calls, overwrote, block,
          input, i, state, result, via, btree, iter, coal, underflow>>

(***************************************************************************)
(* Bytes.  State::from_regex probes `for byte in 0..=255`.                 *)
(***************************************************************************)
ByteMax == 255
Bytes == 0..ByteMax

\* The characters a pattern is written with.  "a" and "b" are literals,
\* "^" is the anchor marker, "(" opens a group (never closed here).
Chars == {"^", "(", "a", "b"}
Literals == {"a", "b"}
ByteOf(ch) == IF ch = "a" THEN 97 ELSE 98

\* The automata of the model distinguish three kinds of byte: 'a', 'b' and
\* every other value.  The tables below are indexed by the kind; next_state
\* takes a byte, as the backend's does.
Classes == {0, 1, 2}
ClassOf(byte) == IF byte = 97 THEN 1 ELSE IF byte = 98 THEN 2 ELSE 0

\* One byte of each kind: 'a', 'b' and one other value.
ClassByte(c) == IF c = 1 THEN 97 ELSE IF c = 2 THEN 98 ELSE 255

(***************************************************************************)
(* The backend: regex_automata::dense (version 0.1).  An automaton is      *)
(*   start      start_state()                                              *)
(*   max_match  ids 1..max_match are the match states                      *)
(*   size       number of state ids, 0..size-1; id 0 is the dead state     *)
(*   trans      the transition table                                       *)
(***************************************************************************)
DeadId == 0

start_state(r) == r.start

is_match_state(r, id) == id <= r.max_match /\ id # DeadId

is_dead_state(r, id) == id = DeadId

next_state(r, id, byte) == r.trans[id][ClassOf(byte)]

Ids(r) == 0..(r.size - 1)

(***************************************************************************)
(* dense::Builder::build on the literal fragment: a pattern made of        *)
(* literal characters only.  Anything else in the pattern ('^' after the   *)
(* one build_dfa strips: the backend supports no anchors; an unclosed      *)
(* group) is a build error.                                                *)
(*                                                                         *)
(* For the literal w of length n the automaton has the dead state 0, the   *)
(* match state 1 and, when n > 0, one state k+2 per proper prefix of       *)
(* length k.  Anchored, a byte that does not continue w leads to the dead  *)
(* state; unanchored, it leads to the longest prefix of w that is a suffix *)
(* of what was read (the search goes on).                                  *)
(***************************************************************************)
IsValidPattern(p) == \A k \in 1..Len(p) : p[k] \in Literals

LitBytes(p) == [k \in 1..Len(p) |-> ByteOf(p[k])]

IsSuffix(u, v) ==
    /\ Len(u) <= Len(v)
    /\ \A k \in 1..Len(u) : u[k] = v[Len(v) - Len(u) + k]

\* longest prefix of w that is a suffix of v
Border(w, v) ==
    LET cand == {k \in 0..Len(w) : IsSuffix(SubSeq(w, 1, k), v)}
    IN  CHOOSE k \in cand : \A j \in cand : j <= k

IdOfLen(w, k) == IF k = Len(w) THEN 1 ELSE k + 2

LitNext(w, anchored, id, c) ==
    IF id = DeadId \/ id = 1 THEN DeadId
    ELSE LET k == id - 2
             read == Append(SubSeq(w, 1, k), ClassByte(c))
         IN  IF anchored
             THEN IF c # 0 /\ w[k + 1] = ClassByte(c)
                  THEN IdOfLen(w, k + 1) ELSE DeadId
             ELSE IF c = 0 THEN IdOfLen(w, 0)
                  ELSE IdOfLen(w, Border(w, read))

LitDfa(w, anchored) ==
    LET size == IF Len(w) = 0 THEN 2 ELSE Len(w) + 2
    IN  [start     |-> IdOfLen(w, 0),
         max_match |-> 1,
         size      |-> size,
         trans     |-> [id \in 0..(size - 1) |->
                          [c \in Classes |-> LitNext(w, anchored, id, c)]]]

\* The representation the builder returns for its options.
Repr(opts) ==
    IF opts.premultiply
    THEN IF opts.byte_classes THEN "PremultipliedByteClass" ELSE "Premultiplied"
    ELSE IF opts.byte_classes THEN "ByteClass" ELSE "Standard"

NoRegex == [start |-> 0, max_match |-> 0, size |-> 0, trans |-> <<>>]

BackendBuild(opts, p) ==
    IF IsValidPattern(p)
    THEN [ok |-> TRUE, repr |-> Repr(opts), dfa |-> LitDfa(LitBytes(p), opts.anchored)]
    ELSE [ok |-> FALSE, repr |-> "none", dfa |-> NoRegex]

(***************************************************************************)
(* build_dfa: strip one leading '^' and set the anchored flag.             *)
(***************************************************************************)
HasAnchor(p) == Len(p) > 0 /\ Head(p) = "^"

\* regex.strip_prefix('^'): the pattern handed to the backend
StripPrefix(p) == IF HasAnchor(p) THEN Tail(p) ELSE p

\* the anchored flag
Anchored(p) == HasAnchor(p)

BuilderOptions(p) ==
    [byte_classes |-> FALSE,
     premultiply  |-> FALSE,
     minimize     |-> TRUE,
     anchored     |-> Anchored(p)]

\* faulty variant: a failed build is not fatal (the result is taken as it is)
BuildOutcomeLenient(res) ==
    IF ~res.ok \/ res.repr = "Standard" THEN "from_regex" ELSE "unreachable"

\* .unwrap() and the `if let DenseDFA::Standard` test: where build_dfa goes
BuildOutcome(res) ==
    IF ~res.ok THEN "panicked"
    ELSE IF res.repr = "Standard" THEN "from_regex" ELSE "unreachable"


(***************************************************************************)
(* enum State { Match, Dead, Transitions(HashMap<usize, BTreeSet<u8>>) }   *)
(***************************************************************************)
EmptyMap == [x \in {} |-> {}]

MatchState == [kind |-> "Match", transitions |-> EmptyMap]
DeadState == [kind |-> "Dead", transitions |-> EmptyMap]
TransitionsState(map) == [kind |-> "Transitions", transitions |-> map]

\* faulty variant: the probe loop is `0..255`, which leaves byte 255 out
StateFromRegexExclusive(r, id) ==
    IF is_match_state(r, id) THEN MatchState
    ELSE IF is_dead_state(r, id) THEN DeadState
    ELSE LET probed == Bytes \ {ByteMax}
             targets == {next_state(r, id, byte) : byte \in probed}
         IN  TransitionsState(
                 [next \in targets |->
                     {byte \in probed : next_state(r, id, byte) = next}])

\* State::from_regex: match first, then dead, else probe all 256 bytes and
\* group them by the state they lead to
StateFromRegex(r, id) ==
    IF is_match_state(r, id) THEN MatchState
    ELSE IF is_dead_state(r, id) THEN DeadState
    ELSE LET targets == {next_state(r, id, byte) : byte \in Bytes}
         IN  TransitionsState(
                 [next \in targets |->
                     {byte \in Bytes : next_state(r, id, byte) = next}])

\* HashMap::insert: an entry of the same key is replaced
Insert(map, key, value) ==
    [k \in (DOMAIN map) \cup {key} |-> IF k = key THEN value ELSE map[k]]

\* faulty variant: the dead state is never recursed into
NeedsVisitNotDead(states, target) ==
    target \notin DOMAIN states /\ target # DeadId

\* faulty variant: the guard only keeps the traversal from returning to the start
NeedsVisitNotStart(states, target) == target # dfa.start

\* faulty variant: no guard at all
NeedsVisitAlways(states, target) == TRUE

\* the recursion guard of Dfa::add_states: !self.states.contains_key(target)
NeedsVisit(states, target) == target \notin DOMAIN states

\* faulty variant: only the first key is iterated over
KeysFirst(st) ==
    IF st.kind = "Transitions"
    THEN {t \in DOMAIN st.transitions : \A u \in DOMAIN st.transitions : t <= u}
    ELSE {}

\* the targets add_states iterates over: transitions.keys() of a
\* Transitions state (`if let State::Transitions`), nothing for Match and Dead
Keys(st) == IF st.kind = "Transitions" THEN DOMAIN st.transitions ELSE {}

(***************************************************************************)
(* range_to_tokens and the coalescing loop of State::handle.               *)
(***************************************************************************)
\* u8 subtraction, wrapping
Sub8(x, y) == (x - y + ByteMax + 1) % (ByteMax + 1)

\* the u8 subtraction x - y leaves 0..255: a panic where overflow is
\* checked, else the wrapped value
Underflows(x, y) == x < y

\* a pattern of the emitted `match byte`: a literal or lo..=hi
range_to_tokens(range) ==
    IF range.lo = range.hi
    THEN [kind |-> "lit", lo |-> range.lo, hi |-> range.lo]
    ELSE [kind |-> "range", lo |-> range.lo, hi |-> range.hi]

NoRange == [some |-> FALSE, lo |-> 0, hi |-> 0]
SomeRange(lo, hi) == [some |-> TRUE, lo |-> lo, hi |-> hi]

\* faulty variant: the open range is extended whatever the byte
AdjacentAlways(range, byte) == TRUE

\* `range.end() == byte - 1`, evaluated with a range open
Adjacent(range, byte) == range.hi = Sub8(byte, 1)

\* the loop's variables: the open range and the ranges pushed so far
CoalesceStart == [range |-> NoRange, ranges |-> <<>>]

\* faulty variant: a range that is closed is dropped, not pushed
CoalesceStepNoPush(acc, byte) ==
    IF acc.range.some /\ Adjacent(acc.range, byte)
    THEN [acc EXCEPT !.range = SomeRange(acc.range.lo, byte)]
    ELSE [range |-> SomeRange(byte, byte), ranges |-> acc.ranges]

\* the body of `for &byte in bytes`
CoalesceStep(acc, byte) ==
    IF acc.range.some /\ Adjacent(acc.range, byte)
    THEN [acc EXCEPT !.range = SomeRange(acc.range.lo, byte)]
    ELSE [range  |-> SomeRange(byte, byte),
          ranges |-> IF acc.range.some
                     THEN Append(acc.ranges, range_to_tokens(acc.range))
                     ELSE acc.ranges]

\* faulty variant: the last open range is not flushed
CoalesceEndNoFlush(acc) == acc.ranges

\* the flush after the loop
CoalesceEnd(acc) ==
    IF acc.range.some THEN Append(acc.ranges, range_to_tokens(acc.range))
    ELSE acc.ranges

\* `for &byte in bytes`: the BTreeSet yields its bytes in ascending order;
\* the body runs for those of lo..hi (the halves in order, the lower first)
RECURSIVE CoalesceLoop(_, _, _, _)
CoalesceLoop(bytes, lo, hi, acc) ==
    IF lo > hi THEN acc
    ELSE IF lo = hi
    THEN IF lo \in bytes THEN CoalesceStep(acc, lo) ELSE acc
    ELSE LET mid == (lo + hi) \div 2
             lower == CoalesceLoop(bytes, lo, mid, acc)
         IN  \* the test holds always: it has the lower half evaluated first
             IF Len(lower.ranges) >= 0
             THEN CoalesceLoop(bytes, mid + 1, hi, lower)
             ELSE acc

Coalesce(bytes) == CoalesceEnd(CoalesceLoop(bytes, 0, ByteMax, CoalesceStart))

\* faulty variant: the set is iterated from its largest byte down
NextByteDescending(left) == CHOOSE byte \in left : \A other \in left : other <= byte

\* what the iterator of the BTreeSet yields next: the least byte left
NextByte(left) == CHOOSE byte \in left : \A other \in left : byte <= other

(***************************************************************************)
(* The emitted code.  A handler is what stands right of `=>` in a byte     *)
(* arm; a body is what stands right of `=>` in a state arm.                *)
(***************************************************************************)
Return(value) == [kind |-> "return", value |-> value, id |-> 0]
Goto(id) == [kind |-> "state", value |-> FALSE, id |-> id]

\* faulty variant: no target is inlined, every arm yields the target's id
TargetHandlerNoInline(states, target) == Goto(target)

\* faulty variant: only Dead targets are inlined
TargetHandlerDeadOnly(states, target) ==
    IF states[target].kind = "Dead" THEN Return(FALSE) ELSE Goto(target)

\* faulty variant: only Match targets are inlined
TargetHandlerMatchOnly(states, target) ==
    IF states[target].kind = "Match" THEN Return(TRUE) ELSE Goto(target)

\* `match states[target]`: terminal targets are inlined
TargetHandler(states, target) ==
    IF states[target].kind = "Match" THEN Return(TRUE)
    ELSE IF states[target].kind = "Dead" THEN Return(FALSE)
    ELSE Goto(target)

\* one byte arm per entry of the transitions map
Branches(st, states) ==
    {[ranges  |-> Coalesce(st.transitions[target]),
      handler |-> TargetHandler(states, target)] : target \in DOMAIN st.transitions}

\* State::handle
StateHandle(st, states) ==
    IF st.kind = "Match" THEN [kind |-> "return", value |-> TRUE, arms |-> {}]
    ELSE IF st.kind = "Dead" THEN [kind |-> "return", value |-> FALSE, arms |-> {}]
    ELSE [kind |-> "match", value |-> FALSE, arms |-> Branches(st, states)]

\* `states[target]` indexes the map: a target that is no key panics
Dangling(states) ==
    \E id \in DOMAIN states : \E target \in DOMAIN states[id].transitions :
        target \notin DOMAIN states

\* Dfa::handle: `let mut state = #start` and one state arm per map entry
DfaHandle(d) ==
    [start |-> d.start,
     arms  |-> [id \in DOMAIN d.states |-> StateHandle(d.states[id], d.states)]]

\* faulty variant: the block ends in `return true`
FallThroughTrue == TRUE

\* the value of the emitted block when the loop ends: `return false`
FallThrough == FALSE

\* does a pattern of a byte arm match the byte
PatMatches(tok, byte) ==
    IF tok.kind = "lit" THEN byte = tok.lo ELSE tok.lo <= byte /\ byte <= tok.hi

ArmMatches(arm, byte) ==
    \E k \in 1..Len(arm.ranges) : PatMatches(arm.ranges[k], byte)

(***************************************************************************)
(* The other rendering of the graph (strategy 2): every byte arm sets      *)
(* `state` to its target's id, terminal or not; a terminal state is        *)
(* noticed at the top of the next iteration; `return false` follows the    *)
(* loop.  As a function of the graph and the input.                        *)
(***************************************************************************)
\* the arm of a state's byte dispatch that takes the byte
MapTarget(st, byte) ==
    CHOOSE target \in DOMAIN st.transitions : byte \in st.transitions[target]

RECURSIVE Strategy2Run(_, _, _, _)
Strategy2Run(states, id, bytes, k) ==
    IF k > Len(bytes) THEN FALSE
    ELSE IF states[id].kind = "Match" THEN TRUE
    ELSE IF states[id].kind = "Dead" THEN FALSE
    ELSE Strategy2Run(states, MapTarget(states[id], bytes[k]), bytes, k + 1)

Strategy2(d, bytes) == Strategy2Run(d.states, d.start, bytes, 1)

NoPattern == <<"?">>
NoBuilder == [regex |-> <<>>, built |-> FALSE, anchored |-> FALSE]
NoDfa == [start |-> 0, states |-> EmptyMap]
NoBlock == [start |-> 0, arms |-> EmptyMap]

Patterns == UNION {[1..n -> Chars] : n \in 0..MaxPatLen}
\* The inputs the matcher emitted for an automaton is run on: sequences of
\* one byte per kind of byte the automaton tells apart (bytes it treats alike
\* in every state give the same run).
Distinguishes(r, c, d) == \E id \in Ids(r) : r.trans[id][c] # r.trans[id][d]

InputBytes(r) ==
    {ClassByte(c) : c \in {c \in Classes :
                              \A d \in Classes : d < c => Distinguishes(r, c, d)}}

Inputs(r) == UNION {[1..n -> InputBytes(r)] : n \in 0..MaxLen}

\* The automata an arbitrary backend result is drawn from: any start, any
\* number of match states, any table in which 'b' goes where the other
\* non-'a' bytes go; the dead state loops.
AnyTrans ==
    {[id \in 0..(NumStates - 1) |->
        [c \in Classes |->
            IF id = DeadId THEN DeadId
            ELSE IF c = 1 THEN row[id][1] ELSE row[id][0]]] :
     row \in [1..(NumStates - 1) -> [0..1 -> 0..(NumStates - 1)]]}

AnyDfas ==
    {[start |-> s, max_match |-> m, size |-> NumStates, trans |-> t] :
     s \in 0..(NumStates - 1), m \in 0..(NumStates - 1), t \in AnyTrans}

\* the coalescing loop of a byte arm is not followed step by step
NotCoalescing ==
    btree = {} /\ iter = {} /\ coal = CoalesceStart /\ underflow = FALSE

Idle ==
    /\ dfa = NoDfa /\ stack = <<>> /\ calls = EmptyMap /\ overwrote = FALSE
    /\ block = NoBlock
    /\ input = <<>> /\ i = 0 /\ state = 0 /\ result = FALSE /\ via = "none"

\* match_regex has parsed its arguments
Init ==
    /\ pc = "build_dfa"
    /\ pattern \in Patterns
    /\ builder = NoBuilder
    /\ regex = NoRegex
    /\ Idle
    /\ NotCoalescing

\* build_dfa has returned some automaton
InitAny ==
    /\ pc = "from_regex"
    /\ pattern = NoPattern
    /\ builder = NoBuilder
    /\ regex \in AnyDfas
    /\ Idle
    /\ NotCoalescing

(***************************************************************************)
(* build_dfa                                                               *)
(***************************************************************************)
BuildDfa ==
    /\ pc = "build_dfa"
    /\ UNCHANGED coalVars
    /\ LET opts == BuilderOptions(pattern)
           res == BackendBuild(opts, StripPrefix(pattern))
       IN  /\ builder' = [regex |-> StripPrefix(pattern), built |-> TRUE,
                          anchored |-> opts.anchored]
           /\ pc' = BuildOutcome(res)
           /\ regex' = IF BuildOutcome(res) = "from_regex" THEN res.dfa ELSE NoRegex
    /\ UNCHANGED <<pattern, dfa, stack, calls, overwrote, block,
                   input, i, state, result, via>>

(***************************************************************************)
(* Dfa::from_regex and Dfa::add_states.  A call of add_states classifies   *)
(* the state and inserts it at once; its loop over transitions.keys() then *)
(* takes the keys in any order.                                            *)
(***************************************************************************)
Frame(id, st) == [id |-> id, pending |-> Keys(st)]

FromRegex ==
    /\ pc = "from_regex"
    /\ UNCHANGED coalVars
    /\ LET start == start_state(regex)
           st == StateFromRegex(regex, start)
       IN  /\ dfa' = [start |-> start, states |-> Insert(EmptyMap, start, st)]
           /\ stack' = <<Frame(start, st)>>
           /\ calls' = [id \in Ids(regex) |-> IF id = start THEN 1 ELSE 0]
    /\ pc' = "add_states"
    /\ UNCHANGED <<pattern, builder, regex, overwrote, block,
                   input, i, state, result, via>>

AddStatesVisit ==
    /\ pc = "add_states"
    /\ UNCHANGED coalVars
    /\ stack # <<>>
    /\ LET top == stack[Len(stack)]
       IN  \E target \in top.pending :
             LET rest == [stack EXCEPT ![Len(stack)].pending = @ \ {target}]
                 st == StateFromRegex(regex, target)
             IN  IF NeedsVisit(dfa.states, target)
                 THEN /\ dfa' = [dfa EXCEPT !.states = Insert(@, target, st)]
                      /\ stack' = Append(rest, Frame(target, st))
                      /\ calls' = [calls EXCEPT ![target] = @ + 1]
                      /\ overwrote' = (overwrote \/ target \in DOMAIN dfa.states)
                 ELSE /\ stack' = rest
                      /\ UNCHANGED <<dfa, calls, overwrote>>
    /\ UNCHANGED <<pc, pattern, builder, regex, block,
                   input, i, state, result, via>>

AddStatesReturn ==
    /\ pc = "add_states"
    /\ UNCHANGED coalVars
    /\ stack # <<>>
    /\ stack[Len(stack)].pending = {}
    /\ stack' = SubSeq(stack, 1, Len(stack) - 1)
    /\ pc' = IF Len(stack) = 1 THEN "handle" ELSE "add_states"
    /\ UNCHANGED <<pattern, builder, regex, dfa, calls, overwrote, block,
                   input, i, state, result, via>>

(***************************************************************************)
(* Dfa::handle: emit the block.                                            *)
(***************************************************************************)
Handle ==
    /\ pc = "handle"
    /\ UNCHANGED coalVars
    /\ IF Dangling(dfa.states)
       THEN pc' = "index_panic" /\ block' = block
       ELSE pc' = "emitted" /\ block' = DfaHandle(dfa)
    /\ UNCHANGED <<pattern, builder, regex, dfa, stack, calls, overwrote,
                   input, i, state, result, via>>

(***************************************************************************)
(* The emitted matcher.                                                    *)
(*     let mut i = 0; let mut state = #start;                              *)
(*     while i < input.len() {                                             *)
(*         let byte = input[i];                                            *)
(*         state = match state { #(#branches,)* _ => [][0] };              *)
(*         i += 1;                                                         *)
(*     }                                                                   *)
(*     return false;                                                       *)
(* The arms come in the iteration order of two HashMaps.  The state arms   *)
(* have distinct keys; of the byte arms the first that matches is taken,   *)
(* which under some order is any arm that matches.                         *)
(***************************************************************************)
CallMatcher ==
    /\ pc = "emitted"
    /\ UNCHANGED coalVars
    /\ input' \in Inputs(regex)
    /\ i' = 0
    /\ state' = block.start
    /\ pc' = "loop"
    /\ UNCHANGED <<pattern, builder, regex, dfa, stack, calls, overwrote, block,
                   result, via>>

\* faulty variant: the index moves on by two
AdvanceTwo(index) == index + 2

\* `i += 1`
Advance(index) == index + 1

Finish(value, how) ==
    /\ pc' = "returned"
    /\ result' = value
    /\ via' = how
    /\ UNCHANGED <<i, state>>

Loop ==
    /\ pc = "loop"
    /\ UNCHANGED coalVars
    /\ IF i >= Len(input)
       THEN Finish(FallThrough, "fallthrough")
       ELSE LET byte == input[i + 1]
            IN  IF state \notin DOMAIN block.arms
                THEN pc' = "catch_all" /\ UNCHANGED <<i, state, result, via>>
                ELSE LET body == block.arms[state]
                         hit == {arm \in body.arms : ArmMatches(arm, byte)}
                     IN  IF body.kind = "return"
                         THEN Finish(body.value, "state_arm")
                         ELSE IF hit = {}
                         THEN pc' = "no_arm" /\ UNCHANGED <<i, state, result, via>>
                         ELSE \E arm \in hit :
                                IF arm.handler.kind = "return"
                                THEN Finish(arm.handler.value, "byte_arm")
                                ELSE /\ state' = arm.handler.id
                                     /\ i' = Advance(i)
                                     /\ UNCHANGED <<pc, result, via>>
    /\ UNCHANGED <<pattern, builder, regex, dfa, stack, calls, overwrote, block,
                   input>>

(***************************************************************************)
(* The coalescing loop of State::handle, one iteration of                  *)
(* `for &byte in bytes` at a time, on a byte set of its own.               *)
(***************************************************************************)
SampleBytes ==
    (0..Edge) \cup {ByteOf("a"), ByteOf("b")} \cup ((ByteMax - Edge)..ByteMax)

ByteSets == (SUBSET SampleBytes) \ {{}}

\* State::handle is about to render the byte arm of some non-empty set
InitCoalesce ==
    /\ pc = "coalesce"
    /\ pattern = NoPattern
    /\ builder = NoBuilder
    /\ regex = NoRegex
    /\ Idle
    /\ btree \in ByteSets
    /\ iter = btree
    /\ coal = CoalesceStart
    /\ underflow = FALSE

\* one iteration: `byte - 1` is evaluated iff a range is open
CoalesceIter ==
    /\ pc = "coalesce"
    /\ iter # {}
    /\ LET byte == NextByte(iter)
       IN  /\ coal' = CoalesceStep(coal, byte)
           /\ iter' = iter \ {byte}
           /\ underflow' = (underflow \/ (coal.range.some /\ Underflows(byte, 1)))
    /\ UNCHANGED <<pc, pattern, builder, regex, dfa, stack, calls, overwrote,
                   block, input, i, state, result, via, btree>>

\* the iterator is exhausted: the open range is flushed
CoalesceFlush ==
    /\ pc = "coalesce"
    /\ iter = {}
    /\ coal' = [coal EXCEPT !.ranges = CoalesceEnd(coal)]
    /\ pc' = "coalesced"
    /\ UNCHANGED <<pattern, builder, regex, dfa, stack, calls, overwrote,
                   block, input, i, state, result, via, btree, iter, underflow>>

NextCoalesce == CoalesceIter \/ CoalesceFlush

\* the rendering of one byte arm's ranges
SpecCoalesce == InitCoalesce /\ [][NextCoalesce]_vars

Extract == FromRegex \/ AddStatesVisit \/ AddStatesReturn

Next == BuildDfa \/ FromRegex \/ AddStatesVisit \/ AddStatesReturn
            \/ Handle \/ CallMatcher \/ Loop

NextAny == FromRegex \/ AddStatesVisit \/ AddStatesReturn
            \/ Handle \/ CallMatcher \/ Loop

\* one expansion of match_regex!(pattern, ..) and one call of the matcher
Spec == Init /\ [][Next]_vars

\* the same from an arbitrary automaton on
SpecAny == InitAny /\ [][NextAny]_vars


(***************************************************************************)
(* Reference definitions for the properties below.                         *)
(***************************************************************************)
\* the backend's own verdict, DFA::is_match: the start state counts, the
\* run stops at the first match or dead state
RECURSIVE EngineRun(_, _, _, _)
EngineRun(r, id, bytes, k) ==
    IF is_match_state(r, id) THEN TRUE
    ELSE IF is_dead_state(r, id) THEN FALSE
    ELSE IF k > Len(bytes) THEN FALSE
    ELSE EngineRun(r, next_state(r, id, bytes[k]), bytes, k + 1)

EngineVerdict(r, bytes) == EngineRun(r, start_state(r), bytes, 1)

\* the literal w occurs in bytes from offset k on
OccursAt(w, bytes, k) ==
    /\ k + Len(w) <= Len(bytes)
    /\ \A j \in 1..Len(w) : bytes[k + j] = w[j]

IsTerminal(r, id) == is_match_state(r, id) \/ is_dead_state(r, id)

Succ(r, id) == {next_state(r, id, ClassByte(c)) : c \in Classes}

\* the ids reachable from `set`, through any state (live = FALSE) or
\* through non-terminal states only (live = TRUE)
RECURSIVE Closure(_, _, _)
Closure(r, set, live) ==
    LET open == {id \in set : live => ~IsTerminal(r, id)}
        more == set \cup UNION {Succ(r, id) : id \in open}
    IN  IF more = set THEN set ELSE Closure(r, more, live)

Reachable(r) == Closure(r, {start_state(r)}, FALSE)
LiveReachable(r) == Closure(r, {start_state(r)}, TRUE)

\* Dfa::from_regex has returned
Extracted ==
    pc \in {"handle", "index_panic", "emitted", "loop", "returned",
            "catch_all", "no_arm"}

HasSelfLoop == \E id \in DOMAIN dfa.states : id \in Keys(dfa.states[id])

HasBackEdge ==
    \E a \in DOMAIN dfa.states : \E b \in DOMAIN dfa.states :
        a # b /\ b \in Keys(dfa.states[a]) /\ a \in Keys(dfa.states[b])

HasSharedTarget ==
    \E t \in DOMAIN dfa.states :
        Cardinality({id \in DOMAIN dfa.states :
                        id # t /\ t \in Keys(dfa.states[id])}) >= 2

RECURSIVE PendingSum(_)
PendingSum(stk) ==
    IF stk = <<>> THEN 0
    ELSE Cardinality(Head(stk).pending) + PendingSum(Tail(stk))

RECURSIVE SumCalls(_)
SumCalls(ids) ==
    IF ids = {} THEN 0
    ELSE LET id == CHOOSE x \in ids : TRUE
         IN  calls[id] + SumCalls(ids \ {id})

TotalCalls == SumCalls(DOMAIN calls)

\* what is left to do of the extraction: states not yet in the map weigh
\* more than any frame they can open
Measure ==
    (regex.size - Cardinality(DOMAIN dfa.states)) * (regex.size + 2)
        + PendingSum(stack) + Len(stack)

\* u is w followed by some suffix
IsPrefix(w, u) == Len(w) <= Len(u) /\ SubSeq(u, 1, Len(w)) = w

\* the engine's verdict, but false on the empty input
NonEmptyVerdict(r, bytes) == bytes # <<>> /\ EngineVerdict(r, bytes)

\* where the graph stands once it has met a terminal state or the bytes
\* have run out, and how many bytes it took
RECURSIVE GraphRun(_, _, _, _)
GraphRun(states, id, bytes, k) ==
    IF k > Len(bytes) \/ states[id].kind # "Transitions"
    THEN [id |-> id, read |-> k - 1]
    ELSE GraphRun(states, MapTarget(states[id], bytes[k]), bytes, k + 1)

\* the last byte, and no byte before it, leads into a Match state
EntersMatchAtEnd(d, bytes) ==
    LET end == GraphRun(d.states, d.start, bytes, 1)
    IN  /\ bytes # <<>>
        /\ end.read = Len(bytes)
        /\ d.states[end.id].kind = "Match"
        /\ d.states[d.start].kind = "Transitions"

(***************************************************************************)
(* C1. Semantic equivalence: on every automaton and every input, the empty *)
(* one included, the emitted matcher returns what the backend's engine     *)
(* returns on the same automaton and input: true iff the run is in a match *)
(* state (the start state before any byte counts) before it is in a dead   *)
(* state or the input ends.                                                *)
(***************************************************************************)
C1_SemanticEquivalence ==
    pc = "returned" => result = EngineVerdict(regex, input)

(***************************************************************************)
(* C2. Anchoring: build_dfa sets anchored exactly when the pattern begins  *)
(* with '^' and hands the backend the pattern without that one '^'; the    *)
(* matcher of an anchored pattern returns true only if a match begins at   *)
(* offset 0, the matcher of an unanchored one returns true if a match      *)
(* begins at any offset of the input.                                      *)
(***************************************************************************)
C2_Anchoring ==
    /\ builder.built =>
         LET caret == Len(pattern) > 0 /\ pattern[1] = "^"
         IN  /\ builder.anchored = caret
             /\ builder.regex = IF caret THEN SubSeq(pattern, 2, Len(pattern))
                                ELSE pattern
    /\ pc = "returned" =>
         LET w == LitBytes(builder.regex)
         IN  /\ builder.anchored => (result => OccursAt(w, input, 0))
             /\ ~builder.anchored =>
                  ((\E k \in 0..Len(input) : OccursAt(w, input, k)) => result)

(***************************************************************************)
(* C3. The emitted matcher is total: `state` is a key of the graph         *)
(* whenever it is dispatched on, so the outer catch-all arm `_ => [][0]`   *)
(* is never executed, and every byte 0..255 is handled by some arm of each *)
(* state's byte dispatch.                                                  *)
(***************************************************************************)
C3_MatcherTotal ==
    /\ pc \notin {"catch_all", "no_arm"}
    /\ pc = "loop" => state \in DOMAIN block.arms
    /\ pc = "emitted" =>
         \A id \in DOMAIN block.arms :
            block.arms[id].kind = "match" =>
                \A byte \in Bytes :
                    \E arm \in block.arms[id].arms : ArmMatches(arm, byte)

C3_Witness ==
    /\ pc = "loop"
    /\ i >= 1 /\ i < Len(input)
    /\ state # block.start
    /\ block.arms[state].kind = "match"

(***************************************************************************)
(* C4. Fall-through to false: when the loop has consumed the whole input   *)
(* without an early return the matcher returns false; on the empty input   *)
(* the loop body is never entered and the matcher returns false.           *)
(***************************************************************************)
C4_FallThroughFalse ==
    pc = "returned" =>
        /\ via = "fallthrough" => (result = FALSE /\ i = Len(input))
        /\ input = <<>> => (via = "fallthrough" /\ result = FALSE)

C4_Witness ==
    /\ pc = "returned"
    /\ pattern = <<"a">>
    /\ input = <<>>
    /\ via = "fallthrough"
    /\ result = FALSE

(***************************************************************************)
(* C5. Determinism: whatever order add_states takes the keys in, the       *)
(* extractor ends with the same graph (the same keys, the same             *)
(* classification per key, the same start), a function of the automaton;   *)
(* whatever order the arms are emitted in, the matcher returns the same    *)
(* boolean, a function of the automaton and the input.                     *)
(***************************************************************************)
C5_Deterministic ==
    /\ pc = "handle" =>
         /\ dfa.start = start_state(regex)
         /\ DOMAIN dfa.states = LiveReachable(regex)
         /\ \A id \in DOMAIN dfa.states :
                dfa.states[id] = StateFromRegex(regex, id)
    /\ pc = "returned" =>
         result = (input # <<>> /\ EngineVerdict(regex, input))

C5_Witness ==
    /\ pc = "returned"
    /\ Len(input) >= 2
    /\ Cardinality(DOMAIN dfa.states) >= 3
    /\ \E id \in DOMAIN dfa.states :
          /\ Cardinality(Keys(dfa.states[id])) >= 2
          /\ Cardinality(block.arms[id].arms) >= 2

(***************************************************************************)
(* C6. Pattern errors are fatal with no partial output: when the backend   *)
(* fails to build an automaton (or returns another representation than     *)
(* the dense standard one) match_regex stops in build_dfa: no state graph  *)
(* and no matcher code is produced.                                        *)
(***************************************************************************)
C6_NoPartialOutput ==
    /\ (builder.built /\ ~IsValidPattern(builder.regex)) => pc = "panicked"
    /\ pc \in {"panicked", "unreachable"} =>
         /\ regex = NoRegex
         /\ dfa = NoDfa /\ stack = <<>> /\ calls = EmptyMap
         /\ block = NoBlock

C6_Witness ==
    /\ pc = "panicked"
    /\ pattern = <<"^", "(">>
    /\ builder.anchored

(***************************************************************************)
(* C7. Graph closure: when Dfa::from_regex has returned, the start id is a *)
(* key of the state map and every id that is a transition target of an     *)
(* entry of the map is a key of the map, cyclic automata included.         *)
(***************************************************************************)
C7_GraphClosure ==
    Extracted =>
        /\ dfa.start \in DOMAIN dfa.states
        /\ \A id \in DOMAIN dfa.states :
              dfa.states[id].kind = "Transitions" =>
                  DOMAIN dfa.states[id].transitions \subseteq DOMAIN dfa.states

C7_Witness ==
    /\ pc = "handle"
    /\ HasSelfLoop
    /\ HasBackEdge

(***************************************************************************)
(* C8. No missing reachable state.  As claimed: when Dfa::from_regex has   *)
(* returned, every id reachable from the start state by the automaton's    *)
(* transition function, through states of any classification, is a key of  *)
(* the state map.                                                          *)
(***************************************************************************)
C8_AllReachableAreKeys ==
    Extracted => Reachable(regex) \subseteq DOMAIN dfa.states

(***************************************************************************)
(* C8, amended: when Dfa::from_regex has returned, every id reachable from *)
(* the start state along transitions that leave states classified          *)
(* Transitions (neither match nor dead) is a key of the state map; what    *)
(* lies behind a match or dead state only is not recorded.                 *)
(***************************************************************************)
C8_LiveReachableAreKeys ==
    Extracted => LiveReachable(regex) \subseteq DOMAIN dfa.states

C8_Witness ==
    /\ pc = "handle"
    /\ Cardinality(LiveReachable(regex)) >= 2
    /\ Reachable(regex) # LiveReachable(regex)
    /\ \E id \in Reachable(regex) : id \notin DOMAIN dfa.states

(***************************************************************************)
(* C9. Each state is classified once: in one run of Dfa::from_regex,       *)
(* add_states is called at most once per state id, whatever the order of   *)
(* the keys, with self-loops, back-edges and shared targets; no entry of   *)
(* the map is overwritten.                                                 *)
(***************************************************************************)
C9_ClassifiedOnce ==
    /\ \A id \in DOMAIN calls : calls[id] <= 1
    /\ \A id \in DOMAIN calls : calls[id] = 1 <=> id \in DOMAIN dfa.states
    /\ ~overwrote

C9_Witness ==
    /\ pc = "handle"
    /\ HasSelfLoop
    /\ HasSharedTarget
    /\ \A id \in DOMAIN dfa.states : calls[id] = 1

(***************************************************************************)
(* C10. Extraction terminates: while add_states runs, a step is always     *)
(* possible and every step lowers a measure that is never negative, so     *)
(* the traversal started by Dfa::from_regex finishes, on cyclic automata   *)
(* too; there are at most as many add_states calls as the automaton has    *)
(* states.                                                                 *)
(***************************************************************************)
C10_ExtractionTerminates ==
    /\ [](pc = "add_states" =>
            /\ ENABLED (AddStatesVisit \/ AddStatesReturn)
            /\ Measure >= 0
            /\ TotalCalls <= regex.size)
    /\ [][pc = "add_states" => Measure' < Measure]_vars

C10_Witness ==
    /\ pc = "handle"
    /\ stack = <<>>
    /\ HasSelfLoop
    /\ HasBackEdge
    /\ TotalCalls = Cardinality(DOMAIN dfa.states)


(***************************************************************************)
(* C11. Byte totality: in every state of the extracted graph that is       *)
(* classified Transitions, the byte sets of the map's entries are          *)
(* non-empty, pairwise disjoint and together hold every byte 0..255, and   *)
(* byte b lies in the set of target t iff next_state(state, b) = t.        *)
(***************************************************************************)
C11_ByteTotality ==
    pc = "handle" =>
        \A id \in DOMAIN dfa.states :
            dfa.states[id].kind = "Transitions" =>
                LET map == dfa.states[id].transitions
                IN  /\ \A t \in DOMAIN map : map[t] # {}
                    /\ \A t \in DOMAIN map : \A u \in DOMAIN map :
                          t # u => map[t] \cap map[u] = {}
                    /\ UNION {map[t] : t \in DOMAIN map} = Bytes
                    /\ \A t \in DOMAIN map : \A byte \in Bytes :
                          byte \in map[t] <=> next_state(regex, id, byte) = t

C11_Witness ==
    /\ pc = "handle"
    /\ \E id \in DOMAIN dfa.states :
          /\ dfa.states[id].kind = "Transitions"
          /\ Cardinality(DOMAIN dfa.states[id].transitions) >= 2
          /\ \E t \in DOMAIN dfa.states[id].transitions :
                {0, ByteMax} \subseteq dfa.states[id].transitions[t]
          /\ \E t \in DOMAIN dfa.states[id].transitions :
                dfa.states[id].transitions[t] = {ByteOf("a")}


(***************************************************************************)
(* C12. Coalescing correctness: for every non-empty set of bytes, the      *)
(* range list State::handle builds for it consists of inclusive ranges     *)
(* (a single byte rendered as a literal) that ascend, are pairwise         *)
(* disjoint and maximal (next.start > prev.end + 1), and that match        *)
(* exactly the bytes of the set; the arm emitted for the set carries this  *)
(* list.                                                                   *)
(***************************************************************************)
C12_CoalescingCorrect ==
    pc = "coalesced" =>
        LET ranges == coal.ranges
        IN  /\ Len(ranges) >= 1
            /\ \A k \in 1..Len(ranges) :
                  /\ ranges[k].lo \in Bytes /\ ranges[k].hi \in Bytes
                  /\ ranges[k].lo <= ranges[k].hi
                  /\ ranges[k].kind = "lit" <=> ranges[k].lo = ranges[k].hi
            /\ \A k \in 1..(Len(ranges) - 1) :
                  ranges[k + 1].lo > ranges[k].hi + 1
            /\ \A byte \in Bytes :
                  (\E k \in 1..Len(ranges) : PatMatches(ranges[k], byte))
                      <=> byte \in btree
            /\ ranges = Coalesce(btree)

C12_Witness ==
    /\ pc = "coalesced"
    /\ {0, 1, ByteOf("a"), ByteMax - 1, ByteMax} \subseteq btree
    /\ Len(coal.ranges) >= 3
    /\ \E k \in 1..Len(coal.ranges) : coal.ranges[k].kind = "lit"
    /\ \E k \in 1..Len(coal.ranges) : coal.ranges[k].kind = "range"



(***************************************************************************)
(* C13. Early return fixes the verdict: a step of the loop whose byte      *)
(* leads to a Match state returns true and one whose byte leads to a Dead  *)
(* state returns false, at once and with the index unmoved, so no later    *)
(* byte is read; any other step moves on to the target.  Every run         *)
(* returns a function of the automaton and the input, and a run that       *)
(* returned from an arm on input w returned what that function gives on w  *)
(* followed by any suffix: the matcher returns the same boolean there.     *)
(***************************************************************************)
C13_EarlyReturnFixesVerdict ==
    /\ [][(pc = "loop" /\ i < Len(input) /\ ~IsTerminal(regex, state)) =>
            LET target == next_state(regex, state, input[i + 1])
            IN  IF IsTerminal(regex, target)
                THEN /\ pc' = "returned" /\ via' = "byte_arm"
                     /\ result' = is_match_state(regex, target)
                     /\ i' = i
                ELSE pc' = "loop" /\ state' = target /\ i' = i + 1]_vars
    /\ [](pc = "returned" =>
            /\ result = NonEmptyVerdict(regex, input)
            /\ via \in {"byte_arm", "state_arm"} =>
                 /\ i < Len(input)
                 /\ \A ext \in Inputs(regex) :
                       IsPrefix(input, ext) =>
                           NonEmptyVerdict(regex, ext) = result)

C13_Witness ==
    /\ pc = "returned"
    /\ via = "byte_arm"
    /\ result = TRUE
    /\ i = 0
    /\ Len(input) = 2
    /\ is_dead_state(regex, next_state(regex,
                                       next_state(regex, state, input[1]),
                                       input[2]))


(***************************************************************************)
(* C14. The two renderings are equivalent.  As claimed: on every state     *)
(* graph and every input, the matcher with `return true` / `return false`  *)
(* inlined into the arms of terminal targets (strategy 1, the emitted one) *)
(* returns what the matcher returns in which every arm sets `state` to     *)
(* its target, terminal states are checked at the top of each iteration    *)
(* and false is returned when the loop ends (strategy 2).                  *)
(***************************************************************************)
C14_StrategiesEquivalent ==
    pc = "returned" => result = Strategy2(dfa, input)

(***************************************************************************)
(* C14, amended: the two renderings return the same boolean on every       *)
(* graph and input but for the inputs whose last byte, and no byte before  *)
(* it, leads into a Match state: there strategy 1 returns true and         *)
(* strategy 2, whose loop ends before it looks at the state, false.        *)
(***************************************************************************)
C14_EquivalentButAtEnd ==
    pc = "returned" =>
        IF EntersMatchAtEnd(dfa, input)
        THEN result = TRUE /\ Strategy2(dfa, input) = FALSE
        ELSE result = Strategy2(dfa, input)

C14_Witness ==
    /\ pc = "returned"
    /\ Len(input) = 2
    /\ via = "byte_arm"
    /\ i = 0
    /\ result = TRUE
    /\ Strategy2(dfa, input) = TRUE
    /\ ~EntersMatchAtEnd(dfa, input)


(***************************************************************************)
(* C15. The emitted matcher terminates and stays in bounds: on an input    *)
(* of length n the index starts at 0 and never leaves 0..n; an iteration   *)
(* runs, and reads input[i], only while i < n, and either returns or       *)
(* moves the index on by exactly 1, so the bytes are read in order and     *)
(* each at most once; while the matcher runs a step is always possible,    *)
(* and it returns after at most n iterations.                              *)
(***************************************************************************)
C15_TerminatesInBounds ==
    /\ [](pc \in {"loop", "returned"} => i \in 0..Len(input))
    /\ [](pc = "loop" => ENABLED Loop)
    /\ [](pc = "returned" =>
            /\ via = "fallthrough" => i = Len(input)
            /\ via # "fallthrough" => i + 1 <= Len(input))
    /\ [][pc = "emitted" => (pc' = "loop" /\ i' = 0)]_vars
    /\ [][pc = "loop" =>
            \/ pc' = "loop" /\ i < Len(input) /\ i' = i + 1
                            /\ Len(input) - i' < Len(input) - i
            \/ pc' # "loop" /\ i' = i]_vars

C15_Witness ==
    /\ pc = "returned"
    /\ via = "fallthrough"
    /\ Len(input) = MaxLen
    /\ i = MaxLen
    /\ input[1] # input[2]


(***************************************************************************)
(* C16. After any assignment to `state` in the emitted loop, `state` is    *)
(* the id of a state classified Transitions, never Match or Dead: the      *)
(* arms of terminal targets return instead of yielding an id.  So the      *)
(* state arms `return true` / `return false` of Match and Dead ids are     *)
(* taken in the first iteration only, with the start state terminal.       *)
(***************************************************************************)
C16_StateStaysTransitions ==
    /\ (pc \in {"loop", "returned"} /\ i >= 1) =>
         /\ state \in DOMAIN dfa.states
         /\ dfa.states[state].kind = "Transitions"
    /\ (pc = "returned" /\ via = "state_arm") =>
         /\ i = 0
         /\ state = dfa.start
         /\ dfa.states[state].kind \in {"Match", "Dead"}
         /\ result = (dfa.states[state].kind = "Match")

C16_Witness ==
    /\ pc = "loop"
    /\ i = 2
    /\ state # dfa.start
    /\ \E id \in DOMAIN dfa.states : dfa.states[id].kind # "Transitions"


(***************************************************************************)
(* C17. No u8 underflow in range coalescing: `byte - 1` is evaluated only  *)
(* with a range open, a range is open only once a byte has been yielded,   *)
(* and the set being iterated in ascending order byte 0 can only be the    *)
(* first byte yielded; so `byte - 1` is never computed for byte = 0, for   *)
(* every non-empty byte set, those holding 0 and those holding 255         *)
(* included.                                                               *)
(***************************************************************************)
C17_NoUnderflow ==
    /\ ~underflow
    /\ pc = "coalesce" /\ iter # {} =>
         /\ coal.range.some <=> iter # btree
         /\ 0 \in iter => (iter = btree /\ ~coal.range.some)
         /\ coal.range.some =>
              /\ NextByte(iter) > coal.range.hi
              /\ ~Underflows(NextByte(iter), 1)
              /\ Sub8(NextByte(iter), 1) = NextByte(iter) - 1

C17_Witness ==
    /\ pc = "coalesced"
    /\ {0, 1, ByteMax} \subseteq btree
    /\ ~underflow
    /\ coal.ranges[1] = range_to_tokens(SomeRange(0, 1))

=============================================================================
